---------------------------- MODULE Spec2Model ----------------------------
(***************************************************************************)
(* A model of the connection-handling and request-dispatch pipeline of the *)
(* HTTP server: the acceptor and its per-connection tasks (server.rs), the *)
(* sliding-window rate limiter and the path/extension validators           *)
(* (security.rs), and the dispatcher, API router and static file resolver  *)
(* (website_handler.rs).                                                   *)
(*                                                                         *)
(* Text (paths, patterns, extensions) is a sequence of one-character       *)
(* strings, so that contains / starts_with / split / to_lowercase are      *)
(* computed as the code computes them.                                     *)
(***************************************************************************)
EXTENDS Integers, Sequences, FiniteSets, TLC

(***************************************************************************)
(* Bounds of the model.  The configuration values of SecurityConfig and    *)
(* the sweep threshold are scaled down so that their cases are reachable.  *)
(***************************************************************************)
\* number of connections the acceptor accepts in one behaviour of Spec
MaxConns == 4
\* number of connections the acceptor accepts in one behaviour of SpecSeq
SeqConns == 4
\* number of connections the acceptor accepts in one behaviour of SpecLive
LiveConns == 4
\* number of connections the acceptor accepts in one behaviour of SpecCalls
CallConns == 5
\* the clock runs over 0..MaxTime
MaxTime == 2
\* SecurityConfig.rate_limit_requests (100 by default), scaled down
rate_limit_requests == 2
\* SecurityConfig.rate_limit_window (60 s by default), in clock ticks
rate_limit_window == 2
\* the ledger size above which is_allowed sweeps (1000 in the code), scaled down
SweepThreshold == 1

\* SecurityConfig.max_path_length
max_path_length == 255

\* StatusCode discriminants
Ok == 200
BadRequest == 400
NotFound == 404
MethodNotAllowed == 405
RequestTimeout == 408
\* Response::rate_limited names StatusCode::TooManyRequests, a variant the
\* enum of status_code.rs does not list; its number is the specification's.
TooManyRequests == 429

Conns ==
    1..(IF MaxConns >= SeqConns /\ MaxConns >= LiveConns /\ MaxConns >= CallConns
        THEN MaxConns
        ELSE IF SeqConns >= LiveConns /\ SeqConns >= CallConns THEN SeqConns
        ELSE IF LiveConns >= CallConns THEN LiveConns ELSE CallConns)
IPs == {"10.0.0.1", "10.0.0.2"}
\* identities enough for the ledger to exceed the sweep threshold
SweepIPs == {"10.0.0.1", "10.0.0.2", "10.0.0.3"}
NoIp == "none"
\* Option<&str> of the Host header: None, a request without the header
NoHost == <<>>

(***************************************************************************)
(* Text helpers.                                                           *)
(***************************************************************************)
NUL == "<NUL>"

SetMax(S) == CHOOSE x \in S : \A y \in S : y <= x

\* str::contains(pattern)
Contains(s, pat) ==
    \E i \in 1..(Len(s) - Len(pat) + 1) : SubSeq(s, i, i + Len(pat) - 1) = pat

\* str::starts_with(prefix)
StartsWith(s, pre) == Len(s) >= Len(pre) /\ SubSeq(s, 1, Len(pre)) = pre

\* str::trim_start_matches(prefix): removes the prefix repeatedly
RECURSIVE TrimStartMatches(_, _)
TrimStartMatches(s, pre) ==
    IF pre # <<>> /\ StartsWith(s, pre)
    THEN TrimStartMatches(SubSeq(s, Len(pre) + 1, Len(s)), pre)
    ELSE s

\* str::split(ch).last(): the text after the last ch, the whole text if none
SplitLast(s, ch) ==
    LET idx == {i \in 1..Len(s) : s[i] = ch}
    IN  IF idx = {} THEN s ELSE SubSeq(s, SetMax(idx) + 1, Len(s))

UpperLetters ==
    <<"A","B","C","D","E","F","G","H","I","J","K","L","M",
      "N","O","P","Q","R","S","T","U","V","W","X","Y","Z">>
LowerLetters ==
    <<"a","b","c","d","e","f","g","h","i","j","k","l","m",
      "n","o","p","q","r","s","t","u","v","w","x","y","z">>

\* char::to_lowercase on the ASCII letters
LowerChar(ch) ==
    IF \E i \in 1..26 : UpperLetters[i] = ch
    THEN LowerLetters[CHOOSE i \in 1..26 : UpperLetters[i] = ch]
    ELSE ch

\* str::to_lowercase
ToLowercase(s) == [i \in 1..Len(s) |-> LowerChar(s[i])]

(***************************************************************************)
(* SecurityConfig::default and SecurityValidator.                          *)
(***************************************************************************)
allowed_file_extensions ==
    { <<"h","t","m","l">>, <<"c","s","s">>, <<"j","s">>, <<"j","s","o","n">>,
      <<"t","x","t">>, <<"x","m","l">>, <<"p","n","g">>, <<"j","p","g">>,
      <<"j","p","e","g">>, <<"g","i","f">>, <<"s","v","g">>, <<"i","c","o">>,
      <<"w","e","b","p">> }

dangerous_patterns ==
    { <<"/","e","t","c","/">>, <<"/","p","r","o","c","/">>, <<"/","s","y","s","/">>,
      <<"/","d","e","v","/">>, <<"/",".","e","n","v">>, <<"/",".","g","i","t">> }

PathOk == "Ok"

\* a validator that misses the parent-directory segment
validate_path_without_dotdot(path) ==
    IF Len(path) > max_path_length THEN "Path too long"
    ELSE IF Contains(path, <<NUL>>)
         THEN "Invalid path characters"
    ELSE IF \E pat \in dangerous_patterns : Contains(path, pat)
         THEN "Forbidden path"
    ELSE PathOk

\* SecurityValidator::validate_path: "Ok" or the error it returns
validate_path(path) ==
    IF Len(path) > max_path_length THEN "Path too long"
    ELSE IF Contains(path, <<".", ".">>) \/ Contains(path, <<NUL>>)
         THEN "Invalid path characters"
    ELSE IF \E pat \in dangerous_patterns : Contains(path, pat)
         THEN "Forbidden path"
    ELSE PathOk

\* SecurityValidator::validate_file_extension
validate_file_extension(file_path) ==
    ToLowercase(SplitLast(file_path, ".")) \in allowed_file_extensions

\* SecurityConfig::default().allowed_hosts
allowed_hosts == {"127.0.0.1:8080", "localhost:8080"}

\* SecurityValidator::validate_host
validate_host(host_header) ==
    IF host_header # <<>>
    THEN \E allowed_host \in allowed_hosts : allowed_host = host_header[1]
    ELSE TRUE


(***************************************************************************)
(* Response (http/response.rs).  An Option<String> body is a sequence of   *)
(* text pieces: <<>> is None, <<a, b>> is Some of the pieces formatted     *)
(* together.  An Option<Response> is <<>> or <<response>>.                 *)
(***************************************************************************)
NoBody == <<>>
Some(text) == <<text>>

TextPlain == "text/plain; charset=utf-8"
TextHtml == "text/html; charset=utf-8"
ApplicationJson == "application/json; charset=utf-8"

\* Response::new
Response_new(status_code, body) ==
    [status_code |-> status_code, body |-> body, content_type |-> TextPlain]

\* Response::html
Response_html(status_code, body) ==
    [status_code |-> status_code, body |-> body, content_type |-> TextHtml]

\* Response::with_content_type
with_content_type(status_code, body, content_type) ==
    [status_code |-> status_code, body |-> body, content_type |-> content_type]

\* Response::security_error
security_error(message) ==
    Response_new(BadRequest, <<"Security violation: ", message>>)

\* Response::rate_limited
rate_limited ==
    Response_new(TooManyRequests, Some("Rate limit exceeded. Please try again later."))

\* Handler::handle_bad_request
handle_bad_request == Response_new(BadRequest, Some("Invalid request format"))

\* Handler::handle_security_violation
handle_security_violation(reason) ==
    security_error("Request blocked for security reasons")

\* the response the connection task builds when its read times out
timeout_response == Response_new(RequestTimeout, Some("Request timeout"))

\* WebsiteHandler::create_safe_error_response
create_safe_error_response(status, message) ==
    Response_new(status,
        Some(CASE status = NotFound -> "The requested resource was not found."
               [] status = BadRequest -> "The request was invalid."
               [] OTHER -> message))

(***************************************************************************)
(* The filesystem seen by the static file resolver.  A filesystem maps the *)
(* path relative to the sandbox root to what canonicalize finds there: the *)
(* canonical path (as components), the kind of the target, whether         *)
(* read_to_string succeeds on it, and its contents.  A name that is not in *)
(* the domain does not exist.                                              *)
(***************************************************************************)
public_path == <<"srv", "public">>

F_index == <<"i","n","d","e","x",".","h","t","m","l">>
F_hello == <<"h","e","l","l","o",".","h","t","m","l">>
F_a == <<"a",".","h","t","m","l">>
F_s == <<"s",".","h","t","m","l">>
F_d == <<"d",".","h","t","m","l">>
F_u == <<"u",".","t","x","t">>
F_x == <<"x",".","e","x","e">>
F_up == <<".",".","/","a",".","h","t","m","l">>
F_sub_up == <<"s","u","b","/",".",".","/","a",".","h","t","m","l">>

RegularFile(name, text) ==
    [canonical |-> public_path \o <<name>>, kind |-> "file",
     readable |-> TRUE, content |-> text]

\* the entries every filesystem of the model holds: a regular file, a symlink
\* that leaves the sandbox, a directory, a file read_to_string fails on, a
\* regular file whose extension is not allowed, and two names with a `..`
\* segment, which canonicalize resolves: one to a file above the sandbox
\* root, one (through the directory sub) back to a.html
BaseEntries ==
    (F_a :> RegularFile("a.html", "contents of a.html"))
    @@ (F_s :> [canonical |-> <<"srv", "secret.html">>, kind |-> "file",
                readable |-> TRUE, content |-> "contents of secret.html"])
    @@ (F_d :> [canonical |-> public_path \o <<"d.html">>, kind |-> "dir",
                readable |-> FALSE, content |-> ""])
    @@ (F_u :> [canonical |-> public_path \o <<"u.txt">>, kind |-> "file",
                readable |-> FALSE, content |-> "contents of u.txt"])
    @@ (F_x :> RegularFile("x.exe", "contents of x.exe"))
    @@ (F_up :> [canonical |-> <<"srv", "a.html">>, kind |-> "file",
                 readable |-> TRUE, content |-> "contents of /srv/a.html"])
    @@ (F_sub_up :> RegularFile("a.html", "contents of a.html"))

IndexEntry == F_index :> RegularFile("index.html", "contents of index.html")
HelloEntry == F_hello :> RegularFile("hello.html", "contents of hello.html")

\* the filesystems a behaviour may start with: index.html and hello.html
\* are each present or absent
FileSystems ==
    { BaseEntries, IndexEntry @@ BaseEntries, HelloEntry @@ BaseEntries,
      IndexEntry @@ HelloEntry @@ BaseEntries }

\* every text some node of some filesystem holds
FileContents ==
    { "contents of a.html", "contents of secret.html", "contents of u.txt",
      "contents of x.exe", "contents of index.html", "contents of hello.html",
      "contents of /srv/a.html" }

\* fs::canonicalize of public_path.join(rel): <<>> is Err, <<node>> is Ok
canonicalize(fsys, rel) ==
    IF rel = <<>>
    THEN <<[canonical |-> public_path, kind |-> "dir", readable |-> FALSE, content |-> ""]>>
    ELSE IF rel \in DOMAIN fsys THEN <<fsys[rel]>> ELSE <<>>

\* Path::starts_with: a prefix by components
PathStartsWith(path, base) ==
    Len(path) >= Len(base) /\ SubSeq(path, 1, Len(base)) = base

\* WebsiteHandler::get_content_type
get_content_type(file_path) ==
    LET ext == SplitLast(file_path, ".")
    IN  CASE ext = <<"h","t","m","l">> -> TextHtml
          [] ext = <<"c","s","s">> -> "text/css; charset=utf-8"
          [] ext = <<"j","s">> -> "application/javascript; charset=utf-8"
          [] ext = <<"j","s","o","n">> -> ApplicationJson
          [] ext = <<"x","m","l">> -> "application/xml; charset=utf-8"
          [] ext = <<"t","x","t">> -> TextPlain
          [] ext = <<"p","n","g">> -> "image/png"
          [] ext \in {<<"j","p","g">>, <<"j","p","e","g">>} -> "image/jpeg"
          [] ext = <<"g","i","f">> -> "image/gif"
          [] ext = <<"s","v","g">> -> "image/svg+xml"
          [] ext = <<"i","c","o">> -> "image/x-icon"
          [] ext = <<"w","e","b","p">> -> "image/webp"
          [] ext = <<"p","d","f">> -> "application/pdf"
          [] OTHER -> "application/octet-stream"

\* What one read_file call did: the path it was given, the checks it made in
\* order, the canonical path read_to_string was called on (<<>> if none), and
\* its result: <<>> for None, <<content, content_type>> for Some.
ReadOutcome(file_path, steps, opened, result) ==
    [file_path |-> file_path, steps |-> steps, opened |-> opened, result |-> result]

\* a resolver that does not check that the canonical path is under the root
read_file_uncontained(fsys, file_path) ==
    IF validate_path(file_path) # PathOk
    THEN ReadOutcome(file_path, <<"validate_path">>, <<>>, <<>>)
    ELSE IF ~validate_file_extension(file_path)
    THEN ReadOutcome(file_path, <<"validate_path", "validate_file_extension">>, <<>>, <<>>)
    ELSE
      LET found == canonicalize(fsys, TrimStartMatches(file_path, <<"/">>))
          s3 == <<"validate_path", "validate_file_extension", "canonicalize">>
      IN  IF found = <<>> THEN ReadOutcome(file_path, s3, <<>>, <<>>)
          ELSE
            LET node == found[1]
            IN  IF node.kind # "file"
                THEN ReadOutcome(file_path, s3 \o <<"is_file">>, <<>>, <<>>)
                ELSE IF ~node.readable
                THEN ReadOutcome(file_path, s3 \o <<"is_file", "read_to_string">>,
                         node.canonical, <<>>)
                ELSE ReadOutcome(file_path, s3 \o <<"is_file", "read_to_string">>,
                         node.canonical,
                         <<node.content, get_content_type(file_path)>>)

\* WebsiteHandler::read_file
read_file(fsys, file_path) ==
    IF validate_path(file_path) # PathOk
    THEN ReadOutcome(file_path, <<"validate_path">>, <<>>, <<>>)
    ELSE IF ~validate_file_extension(file_path)
    THEN ReadOutcome(file_path, <<"validate_path", "validate_file_extension">>, <<>>, <<>>)
    ELSE
      LET found == canonicalize(fsys, TrimStartMatches(file_path, <<"/">>))
          s3 == <<"validate_path", "validate_file_extension", "canonicalize">>
      IN  IF found = <<>> THEN ReadOutcome(file_path, s3, <<>>, <<>>)
          ELSE
            LET node == found[1]
            IN  IF ~PathStartsWith(node.canonical, public_path)
                THEN ReadOutcome(file_path, s3 \o <<"starts_with">>, <<>>, <<>>)
                ELSE IF node.kind # "file"
                THEN ReadOutcome(file_path, s3 \o <<"starts_with", "is_file">>, <<>>, <<>>)
                ELSE IF ~node.readable
                THEN ReadOutcome(file_path,
                         s3 \o <<"starts_with", "is_file", "read_to_string">>,
                         node.canonical, <<>>)
                ELSE ReadOutcome(file_path,
                         s3 \o <<"starts_with", "is_file", "read_to_string">>,
                         node.canonical,
                         <<node.content, get_content_type(file_path)>>)


(***************************************************************************)
(* Requests.  The parser (Request::try_from) is outside the model: a       *)
(* parsed request is a method and a path.  PUT stands for every method     *)
(* other than the four the handler names.                                  *)
(***************************************************************************)
Methods == {"GET", "HEAD", "OPTIONS", "POST", "PUT"}

P_root == <<"/">>
P_hello == <<"/","h","e","l","l","o">>
P_a == <<"/","a",".","h","t","m","l">>
P_s == <<"/","s",".","h","t","m","l">>
P_d == <<"/","d",".","h","t","m","l">>
P_u == <<"/","u",".","t","x","t">>
P_x == <<"/","x",".","e","x","e">>
P_missing == <<"/","m",".","h","t","m","l">>
P_upper == <<"/","a",".","H","T","M","L">>
P_api == <<"/","a","p","i">>
P_api_ping == <<"/","a","p","i","/","p","i","n","g">>
P_api_info == <<"/","a","p","i","/","i","n","f","o">>
P_api_users == <<"/","a","p","i","/","u","s","e","r","s">>
P_api_users_ == <<"/","a","p","i","/","u","s","e","r","s","/">>
P_api_echo == <<"/","a","p","i","/","e","c","h","o">>
P_api_search == <<"/","a","p","i","/","s","e","a","r","c","h">>
P_api_time == <<"/","a","p","i","/","t","i","m","e">>
P_api_ == <<"/","a","p","i","/">>
P_api_unknown == <<"/","a","p","i","/","x">>
P_user2 == <<"/","a","p","i","/","u","s","e","r","s","/","2">>
P_user9 == <<"/","a","p","i","/","u","s","e","r","s","/","9">>
P_userx == <<"/","a","p","i","/","u","s","e","r","s","/","x">>
P_sub_dotdot == <<"/","s","u","b","/",".",".","/","a",".","h","t","m","l">>
P_dotdot == <<"/",".",".","/","a",".","h","t","m","l">>
P_api_dotdot == <<"/","a","p","i","/",".",".","/","a",".","h","t","m","l">>
P_nul == <<"/","a",NUL,".","h","t","m","l">>
P_git == <<"/",".","g","i","t","/","a",".","t","x","t">>

P_bare == <<"h","t","m","l">>
P_nodot == <<"/","h","t","m","l">>
P_user0 == <<"/","a","p","i","/","u","s","e","r","s","/","0">>
P_user4 == <<"/","a","p","i","/","u","s","e","r","s","/","4">>
P_user02 == <<"/","a","p","i","/","u","s","e","r","s","/","0","2">>
P_user_plus2 == <<"/","a","p","i","/","u","s","e","r","s","/","+","2">>
P_user_big ==
    <<"/","a","p","i","/","u","s","e","r","s","/","4","2","9","4","9","6","7","2","9","6">>
P_user_twice == P_api_users_ \o P_user2

\* the paths the pure checks range over
Paths ==
    { P_root, P_hello, P_a, P_s, P_d, P_u, P_x, P_missing, P_upper, P_api,
      P_api_ping, P_api_info, P_api_users, P_api_echo, P_api_search, P_api_time,
      P_api_, P_api_unknown, P_user2, P_user9, P_userx,
      P_dotdot, P_sub_dotdot, P_api_dotdot, P_nul, P_git }

\* the paths of the requests a connection may carry
RequestPaths ==
    { P_root, P_hello, P_a, P_s, P_x, P_api, P_api_ping, P_api_echo,
      P_api_unknown, P_dotdot, P_sub_dotdot, P_api_dotdot, P_nul }

Request(method, path) == [method |-> method, path |-> path]
NoRequest == Request("none", <<>>)

\* every request of the sequential specification
AllRequests == { Request(m, p) : m \in Methods, p \in RequestPaths }

\* the requests of the concurrent specification
PingRequests == { Request("GET", P_api_ping) }

\* the requests of the specification of the path checks: GET requests for
\* files with and without an extension and for users by id
LookupPaths ==
    { P_a, P_upper, P_x, P_missing, P_bare, P_nodot, P_api_users_, P_user0,
      P_user2, P_user4, P_user9, P_userx, P_user02, P_user_plus2, P_user_big,
      P_user_twice }

LookupRequests == { Request("GET", p) : p \in LookupPaths }

\* the Host headers a request arrives with: none, allow-listed ones, one
\* that differs from an allow-listed one in case only, and a foreign one
Hosts ==
    { NoHost, <<"localhost:8080">>, <<"127.0.0.1:8080">>, <<"LOCALHOST:8080">>,
      <<"evil.example">> }

\* the requests of the specification with Host headers: a static page and
\* an API route
HostRequests == { Request("GET", P_root), Request("GET", P_api_ping) }

(***************************************************************************)
(* The API router.                                                         *)
(***************************************************************************)
Digits == <<"0","1","2","3","4","5","6","7","8","9">>
IsDigit(ch) == \E i \in 1..10 : Digits[i] = ch
DigitValue(ch) == (CHOOSE i \in 1..10 : Digits[i] = ch) - 1

RECURSIVE DecimalValue(_)
DecimalValue(s) ==
    IF s = <<>> THEN 0
    ELSE 10 * DecimalValue(SubSeq(s, 1, Len(s) - 1)) + DigitValue(s[Len(s)])

RECURSIVE TrimZeros(_)
TrimZeros(s) == IF s # <<>> /\ s[1] = "0" THEN TrimZeros(Tail(s)) ELSE s

\* the decimal digits of u32::MAX, 4294967295
U32MaxDigits == <<"4","2","9","4","9","6","7","2","9","5">>

\* a <= b for two digit strings of the same length
RECURSIVE DigitsLeq(_, _)
DigitsLeq(a, b) ==
    IF a = <<>> THEN TRUE
    ELSE IF DigitValue(a[1]) # DigitValue(b[1]) THEN DigitValue(a[1]) < DigitValue(b[1])
    ELSE DigitsLeq(Tail(a), Tail(b))

\* str::parse::<u32>: the value, or -1 for Err.  One leading "+" is accepted,
\* and a number above u32::MAX is an Err.  A value of ten significant digits
\* is returned as 1000000000: the router only asks whether the value is in 1..3.
ParseU32(s) ==
    LET digits == IF s # <<>> /\ s[1] = "+" THEN Tail(s) ELSE s
        sig == TrimZeros(digits)
    IN  IF digits = <<>> \/ \E i \in 1..Len(digits) : ~IsDigit(digits[i]) THEN -1
        ELSE IF Len(sig) > 10 THEN -1
        ELSE IF Len(sig) = 10
             THEN IF DigitsLeq(sig, U32MaxDigits) THEN 1000000000 ELSE -1
        ELSE DecimalValue(sig)

JsonOk(body) == <<with_content_type(Ok, body, ApplicationJson)>>

ApiNotFoundBody ==
    Some("{\"success\": false, \"data\": null, \"message\": \"API endpoint not found\"}")

\* the arm of handle_api_route for GET /api/users/<id>
user_by_id(path) ==
    LET user_id == ParseU32(TrimStartMatches(path, P_api_users_))
    IN  IF user_id >= 1 /\ user_id <= 3
        THEN JsonOk(<<"{\"success\": true, \"data\": {\"id\": ",
                      CASE user_id = 1 -> "1, \"name\": \"Alice\", \"email\": \"alice@example.com\""
                        [] user_id = 2 -> "2, \"name\": \"Bob\", \"email\": \"bob@example.com\""
                        [] user_id = 3 -> "3, \"name\": \"Charlie\", \"email\": \"charlie@example.com\"",
                      "}, \"message\": \"User found\"}">>)
        ELSE IF user_id >= 0
        THEN <<with_content_type(NotFound,
                 Some("{\"success\": false, \"data\": null, \"message\": \"User not found\"}"),
                 ApplicationJson)>>
        ELSE <<with_content_type(BadRequest,
                 Some("{\"success\": false, \"data\": null, \"message\": \"Invalid user ID\"}"),
                 ApplicationJson)>>

\* a router whose not-found arm matches GET only
handle_api_route_get_only(method, path) ==
    IF method = "GET" /\ path = P_api_ping
    THEN JsonOk(Some("{\"status\": \"ok\", \"message\": \"pong\"}"))
    ELSE IF method = "GET" /\ path = P_api_info
    THEN JsonOk(Some("{\"server\": \"Rust HTTP Server\", ...}"))
    ELSE IF method = "GET" /\ path = P_api_users
    THEN JsonOk(Some("{\"success\": true, \"data\": [...], \"message\": \"Users retrieved successfully\"}"))
    ELSE IF method = "GET" /\ StartsWith(path, P_api_users_)
    THEN user_by_id(path)
    ELSE IF method = "POST" /\ path = P_api_echo
    THEN JsonOk(Some("{\"success\": true, \"data\": {...}, \"message\": \"Echo successful\"}"))
    ELSE IF method = "GET" /\ path = P_api_search
    THEN JsonOk(Some("{\"success\": true, \"data\": {...}, \"message\": \"Search completed\"}"))
    ELSE IF method = "GET" /\ path = P_api_time
    THEN JsonOk(Some("{\"success\": true, \"data\": {...}, \"message\": \"Current server time\"}"))
    ELSE IF method = "GET" /\ StartsWith(path, P_api_)
    THEN <<with_content_type(NotFound, ApiNotFoundBody, ApplicationJson)>>
    ELSE <<>>

\* WebsiteHandler::handle_api_route: <<>> is None.  The bodies that format a
\* counter, a clock reading or the query string keep their fixed text only.
handle_api_route(method, path) ==
    IF method = "GET" /\ path = P_api_ping
    THEN JsonOk(Some("{\"status\": \"ok\", \"message\": \"pong\"}"))
    ELSE IF method = "GET" /\ path = P_api_info
    THEN JsonOk(Some("{\"server\": \"Rust HTTP Server\", ...}"))
    ELSE IF method = "GET" /\ path = P_api_users
    THEN JsonOk(Some("{\"success\": true, \"data\": [...], \"message\": \"Users retrieved successfully\"}"))
    ELSE IF method = "GET" /\ StartsWith(path, P_api_users_)
    THEN user_by_id(path)
    ELSE IF method = "POST" /\ path = P_api_echo
    THEN JsonOk(Some("{\"success\": true, \"data\": {...}, \"message\": \"Echo successful\"}"))
    ELSE IF method = "GET" /\ path = P_api_search
    THEN JsonOk(Some("{\"success\": true, \"data\": {...}, \"message\": \"Search completed\"}"))
    ELSE IF method = "GET" /\ path = P_api_time
    THEN JsonOk(Some("{\"success\": true, \"data\": {...}, \"message\": \"Current server time\"}"))
    ELSE IF StartsWith(path, P_api_)
    THEN <<with_content_type(NotFound, ApiNotFoundBody, ApplicationJson)>>
    ELSE <<>>


(***************************************************************************)
(* The dispatcher.  The stages of one handle_request call, in the order    *)
(* the function body has them.                                             *)
(***************************************************************************)
StageOrder ==
    <<"RateLimitCheck", "PathValidation", "Logging", "ApiRouting",
      "StaticFileRouting", "MethodFallback">>

\* What one handle_request call did: its response, the stages it went
\* through, in order, and the read_file calls it made, in order.
Handled(response, stages, reads) ==
    [response |-> response, stages |-> stages, reads |-> reads]

\* the response of a static GET: the file, or the safe 404
static_get(reads, message) ==
    LET last == reads[Len(reads)]
    IN  IF last.result # <<>>
        THEN with_content_type(Ok, Some(last.result[1]), last.result[2])
        ELSE create_safe_error_response(NotFound, message)

\* the read_file calls of the "/" arm: index.html, then hello.html if that fails
index_reads(fsys) ==
    LET first == read_file(fsys, F_index)
    IN  IF first.result # <<>> THEN <<first>> ELSE <<first, read_file(fsys, F_hello)>>

\* a dispatcher whose static GET arm takes every method but HEAD and OPTIONS
static_or_fallback_serving_any_method(fsys, method, path) ==
    LET s4 == <<"RateLimitCheck", "PathValidation", "Logging", "ApiRouting">>
        reads == IF path = P_root THEN index_reads(fsys)
                 ELSE IF path = P_hello THEN <<read_file(fsys, F_hello)>>
                 ELSE <<read_file(fsys, path)>>
        found == reads[Len(reads)].result # <<>>
    IN  IF method \notin {"HEAD", "OPTIONS"}
        THEN Handled(static_get(reads,
                        IF path = P_root THEN "Index page not found"
                        ELSE IF path = P_hello THEN "Page not found"
                        ELSE "File not found"),
                     s4 \o <<"StaticFileRouting">>, reads)
        ELSE IF method = "HEAD"
        THEN Handled(IF found
                     THEN IF path \in {P_root, P_hello}
                          THEN Response_html(Ok, NoBody)
                          ELSE Response_new(Ok, NoBody)
                     ELSE Response_new(NotFound, NoBody),
                     s4 \o <<"StaticFileRouting">>, reads)
        ELSE IF method = "OPTIONS"
        THEN Handled(Response_new(Ok, NoBody), s4 \o <<"MethodFallback">>, <<>>)
        ELSE Handled(Response_new(MethodNotAllowed, Some("Method not allowed")),
                     s4 \o <<"MethodFallback">>, <<>>)

\* the arms of handle_request's match on the method (lines 311-379)
static_or_fallback(fsys, method, path) ==
    LET s4 == <<"RateLimitCheck", "PathValidation", "Logging", "ApiRouting">>
        reads == IF path = P_root THEN index_reads(fsys)
                 ELSE IF path = P_hello THEN <<read_file(fsys, F_hello)>>
                 ELSE <<read_file(fsys, path)>>
        found == reads[Len(reads)].result # <<>>
    IN  IF method = "GET"
        THEN Handled(static_get(reads,
                        IF path = P_root THEN "Index page not found"
                        ELSE IF path = P_hello THEN "Page not found"
                        ELSE "File not found"),
                     s4 \o <<"StaticFileRouting">>, reads)
        ELSE IF method = "HEAD"
        THEN Handled(IF found
                     THEN IF path \in {P_root, P_hello}
                          THEN Response_html(Ok, NoBody)
                          ELSE Response_new(Ok, NoBody)
                     ELSE Response_new(NotFound, NoBody),
                     s4 \o <<"StaticFileRouting">>, reads)
        ELSE IF method = "OPTIONS"
        THEN Handled(Response_new(Ok, NoBody), s4 \o <<"MethodFallback">>, <<>>)
        ELSE Handled(Response_new(MethodNotAllowed, Some("Method not allowed")),
                     s4 \o <<"MethodFallback">>, <<>>)

\* a dispatcher that tries the API routes before it validates the path
handle_request_api_first(allowed, fsys, request) ==
    IF ~allowed
    THEN Handled(rate_limited, <<"RateLimitCheck">>, <<>>)
    ELSE IF handle_api_route(request.method, request.path) # <<>>
    THEN Handled(handle_api_route(request.method, request.path)[1],
                 <<"RateLimitCheck", "Logging", "ApiRouting">>, <<>>)
    ELSE IF validate_path(request.path) # PathOk
    THEN Handled(handle_security_violation(validate_path(request.path)),
                 <<"RateLimitCheck", "Logging", "ApiRouting", "PathValidation">>, <<>>)
    ELSE static_or_fallback(fsys, request.method, request.path)

\* WebsiteHandler::handle_request, given what is_allowed returned
handle_request(allowed, fsys, request) ==
    IF ~allowed
    THEN Handled(rate_limited, <<"RateLimitCheck">>, <<>>)
    ELSE IF validate_path(request.path) # PathOk
    THEN Handled(handle_security_violation(validate_path(request.path)),
                 <<"RateLimitCheck", "PathValidation">>, <<>>)
    ELSE IF handle_api_route(request.method, request.path) # <<>>
    THEN Handled(handle_api_route(request.method, request.path)[1],
                 <<"RateLimitCheck", "PathValidation", "Logging", "ApiRouting">>, <<>>)
    ELSE static_or_fallback(fsys, request.method, request.path)


(***************************************************************************)
(* The rate limiter (security.rs).  A ledger maps the identities it holds  *)
(* to their timestamps, in the order they were pushed.                     *)
(***************************************************************************)
\* Instant::duration_since: saturates to zero when `time` is later than `now`
duration_since(now, time) == IF now >= time THEN now - time ELSE 0

\* a retain that keeps the timestamps that are exactly a window old
retain_window_inclusive(times, now) ==
    LET InWindow(time) == duration_since(now, time) <= rate_limit_window
    IN  SelectSeq(times, InWindow)

\* Vec::retain(|&time| now.duration_since(time) < rate_limit_window)
retain_window(times, now) ==
    LET InWindow(time) == duration_since(now, time) < rate_limit_window
    IN  SelectSeq(times, InWindow)

\* a sweep that prunes the timestamps and keeps the identities left empty
sweep_keeping_empty(ledger, now) ==
    IF Cardinality(DOMAIN ledger) > SweepThreshold
    THEN [i \in DOMAIN ledger |-> retain_window(ledger[i], now)]
    ELSE ledger

\* lines 51-56: the sweep of the whole ledger when it holds too many identities
sweep(ledger, now) ==
    IF Cardinality(DOMAIN ledger) > SweepThreshold
    THEN LET pruned == [i \in DOMAIN ledger |-> retain_window(ledger[i], now)]
         IN  [i \in {j \in DOMAIN ledger : pruned[j] # <<>>} |-> pruned[i]]
    ELSE ledger

\* lines 58-59: the caller's entry, created empty if absent, then pruned
own_entry(ledger, ip_addr, now) ==
    IF ip_addr \in DOMAIN ledger THEN retain_window(ledger[ip_addr], now) ELSE <<>>

\* a limiter that admits a request when the entry already holds
\* rate_limit_requests timestamps
is_allowed_at_limit(ledger, ip_addr, now) ==
    LET swept == sweep(ledger, now)
        mine == own_entry(swept, ip_addr, now)
        others == [i \in DOMAIN swept \ {ip_addr} |-> swept[i]]
    IN  IF Len(mine) <= rate_limit_requests
        THEN [requests |-> (ip_addr :> Append(mine, now)) @@ others, result |-> TRUE]
        ELSE [requests |-> (ip_addr :> mine) @@ others, result |-> FALSE]

\* a limiter that records the rejected calls too
is_allowed_recording_rejections(ledger, ip_addr, now) ==
    LET swept == sweep(ledger, now)
        mine == own_entry(swept, ip_addr, now)
        others == [i \in DOMAIN swept \ {ip_addr} |-> swept[i]]
    IN  [requests |-> (ip_addr :> Append(mine, now)) @@ others,
         result |-> Len(mine) < rate_limit_requests]

\* RateLimiter::is_allowed with the write guard held (lines 50-67): the
\* ledger it leaves and the value it returns
is_allowed(ledger, ip_addr, now) ==
    LET swept == sweep(ledger, now)
        mine == own_entry(swept, ip_addr, now)
        others == [i \in DOMAIN swept \ {ip_addr} |-> swept[i]]
    IN  IF Len(mine) < rate_limit_requests
        THEN [requests |-> (ip_addr :> Append(mine, now)) @@ others, result |-> TRUE]
        ELSE [requests |-> (ip_addr :> mine) @@ others, result |-> FALSE]

(***************************************************************************)
(* State.                                                                  *)
(***************************************************************************)
VARIABLES
    clock,      \* the monotonic clock Instant::now reads
    fs,         \* the filesystem under and around the sandbox root
    requests,   \* RateLimiter.requests: the ledger
    poisoned,   \* whether the ledger's RwLock is poisoned
    writer,     \* the connection holding the write guard, 0 if none
    pc,         \* where each connection's task is
    ip,         \* the remote IP of each accepted connection
    tnow,       \* the `now` is_allowed read at its first line
    request,    \* the request parsed from the connection's bytes
    allowed,    \* what is_allowed returned: "unset", "true", "false"
    handled,    \* the response the task is about to send, and how it arose
    calls,      \* per identity, the is_allowed calls in the order they ran
    host,       \* the Host header of the request, NoHost if it has none
    end,        \* how the task that has just returned ended
    listening,  \* whether the accept loop is running
    read_result \* what the task's read, under its timeout, came back with

vars ==
    <<clock, fs, requests, poisoned, writer, pc, ip, tnow, request, allowed,
      handled, calls, host, end, listening, read_result>>

NotEnded == "running"
NoResponse == [status_code |-> 0, body |-> NoBody, content_type |-> ""]
NotHandled == Handled(NoResponse, <<>>, <<>>)

InFlight == {c \in Conns : pc[c] \in {"read", "lock", "crit", "send", "closed"}}

InitWith(filesystems) ==
    /\ clock = 0
    /\ fs \in filesystems
    /\ requests = <<>>
    /\ poisoned = FALSE
    /\ writer = 0
    /\ pc = [c \in Conns |-> "idle"]
    /\ ip = [c \in Conns |-> NoIp]
    /\ tnow = [c \in Conns |-> 0]
    /\ request = [c \in Conns |-> NoRequest]
    /\ allowed = [c \in Conns |-> "unset"]
    /\ handled = [c \in Conns |-> NotHandled]
    /\ calls = [a \in IPs \cup SweepIPs |-> <<>>]
    /\ host = [c \in Conns |-> NoHost]
    /\ end = [c \in Conns |-> NotEnded]
    /\ listening = TRUE
    /\ read_result = [c \in Conns |-> "pending"]

\* some task has returned and its future is not dropped yet: the poll in
\* which a task returns also drops it, so nothing else steps in between
Returning == \E c \in Conns : pc[c] = "closed"

\* a task returns (or unwinds): its locals are dropped
Drop(c, how) ==
    /\ pc' = [pc EXCEPT ![c] = "closed"]
    /\ end' = [end EXCEPT ![c] = how]
    /\ host' = [host EXCEPT ![c] = NoHost]
    /\ read_result' = [read_result EXCEPT ![c] = "pending"]
    /\ ip' = [ip EXCEPT ![c] = NoIp]
    /\ tnow' = [tnow EXCEPT ![c] = 0]
    /\ request' = [request EXCEPT ![c] = NoRequest]
    /\ allowed' = [allowed EXCEPT ![c] = "unset"]
    /\ handled' = [handled EXCEPT ![c] = NotHandled]

(***************************************************************************)
(* The acceptor and the connection tasks (Server::run).                    *)
(***************************************************************************)
\* an acceptor that awaits the task it spawned before it accepts again
AcceptAwaitingTasks(c, conns, tasks, addrs) ==
    /\ ~Returning
    /\ listening
    /\ pc[c] = "idle"
    /\ c <= conns
    /\ \A d \in 1..(c - 1) : pc[d] = "done"
    /\ Cardinality(InFlight) < tasks
    /\ \E a \in addrs : ip' = [ip EXCEPT ![c] = a]
    /\ pc' = [pc EXCEPT ![c] = "read"]
    /\ UNCHANGED <<clock, fs, requests, poisoned, writer, tnow, request, allowed,
                   handled, calls, host, end, listening,
                   read_result>>

\* listener.accept() returns a connection and its task is spawned
\* (connections are numbered in the order they are accepted)
Accept(c, conns, tasks, addrs) ==
    /\ ~Returning
    /\ listening
    /\ pc[c] = "idle"
    /\ c <= conns
    /\ IF c = 1 THEN TRUE ELSE pc[c - 1] # "idle"
    /\ Cardinality(InFlight) < tasks
    /\ \E a \in addrs : ip' = [ip EXCEPT ![c] = a]
    /\ pc' = [pc EXCEPT ![c] = "read"]
    /\ UNCHANGED <<clock, fs, requests, poisoned, writer, tnow, request, allowed,
                   handled, calls, host, end, listening,
                   read_result>>

\* listener.accept() returns Err: logged, and the loop goes on (line 88)
AcceptFail ==
    /\ ~Returning
    /\ listening
    /\ listening' = TRUE
    /\ UNCHANGED <<clock, fs, requests, poisoned, writer, pc, ip, tnow, request,
                   allowed, handled, calls, host, end,
                   read_result>>

\* a timeout that is answered like a request that does not parse
ReadTimeoutAsBadRequest(c) ==
    /\ ~Returning
    /\ pc[c] = "read"
    /\ pc' = [pc EXCEPT ![c] = "send"]
    /\ handled' = [handled EXCEPT ![c] = Handled(handle_bad_request, <<>>, <<>>)]
    /\ read_result' = [read_result EXCEPT ![c] = "timeout"]
    /\ UNCHANGED <<clock, fs, requests, poisoned, writer, ip, tnow, request,
                   allowed, calls, host, end, listening>>

\* the read does not finish within the timeout: the 408 response is built
ReadTimeout(c) ==
    /\ ~Returning
    /\ pc[c] = "read"
    /\ pc' = [pc EXCEPT ![c] = "send"]
    /\ handled' = [handled EXCEPT ![c] = Handled(timeout_response, <<>>, <<>>)]
    /\ read_result' = [read_result EXCEPT ![c] = "timeout"]
    /\ UNCHANGED <<clock, fs, requests, poisoned, writer, ip, tnow, request,
                   allowed, calls, host, end, listening>>

\* the read fails: logged, nothing written
ReadError(c) ==
    /\ ~Returning
    /\ pc[c] = "read"
    /\ Drop(c, "read_error")
    /\ UNCHANGED <<clock, fs, requests, poisoned, writer, calls, listening>>

\* the read returns zero bytes: the task returns
ReadZero(c) ==
    /\ ~Returning
    /\ pc[c] = "read"
    /\ Drop(c, "zero_bytes")
    /\ UNCHANGED <<clock, fs, requests, poisoned, writer, calls, listening>>

\* the bytes read do not parse: handle_bad_request
ReadBad(c) ==
    /\ ~Returning
    /\ pc[c] = "read"
    /\ pc' = [pc EXCEPT ![c] = "send"]
    /\ handled' = [handled EXCEPT ![c] = Handled(handle_bad_request, <<>>, <<>>)]
    /\ read_result' = [read_result EXCEPT ![c] = "bytes"]
    /\ UNCHANGED <<clock, fs, requests, poisoned, writer, ip, tnow, request,
                   allowed, calls, host, end, listening>>

\* the bytes read parse to a request; handle_request calls is_allowed, which
\* reads the clock (line 44) before it asks for the write guard
ReadOk(c, universe, hosts) ==
    /\ ~Returning
    /\ pc[c] = "read"
    /\ \E r \in universe : request' = [request EXCEPT ![c] = r]
    /\ \E h \in hosts : host' = [host EXCEPT ![c] = h]
    /\ tnow' = [tnow EXCEPT ![c] = clock]
    /\ pc' = [pc EXCEPT ![c] = "lock"]
    /\ read_result' = [read_result EXCEPT ![c] = "bytes"]
    /\ UNCHANGED <<clock, fs, requests, poisoned, writer, ip, allowed, handled,
                   calls, end, listening>>

\* a limiter that recovers the ledger from a poisoned lock and admits the
\* request without recording it
LockPoisonedFailOpen(c) ==
    /\ ~Returning
    /\ pc[c] = "lock"
    /\ poisoned
    /\ allowed' = [allowed EXCEPT ![c] = "true"]
    /\ handled' = [handled EXCEPT ![c] = handle_request(TRUE, fs, request[c])]
    /\ calls' = [calls EXCEPT ![ip[c]] = Append(@, [now |-> tnow[c], res |-> "poisoned"])]
    /\ tnow' = [tnow EXCEPT ![c] = 0]
    /\ pc' = [pc EXCEPT ![c] = "send"]
    /\ UNCHANGED <<clock, fs, requests, poisoned, writer, ip, request, host, end, listening,
                   read_result>>

\* self.requests.write() returns Err: is_allowed returns false (line 47)
LockPoisoned(c) ==
    /\ ~Returning
    /\ pc[c] = "lock"
    /\ poisoned
    /\ allowed' = [allowed EXCEPT ![c] = "false"]
    /\ handled' = [handled EXCEPT ![c] = handle_request(FALSE, fs, request[c])]
    /\ calls' = [calls EXCEPT ![ip[c]] = Append(@, [now |-> tnow[c], res |-> "poisoned"])]
    /\ tnow' = [tnow EXCEPT ![c] = 0]
    /\ pc' = [pc EXCEPT ![c] = "send"]
    /\ UNCHANGED <<clock, fs, requests, poisoned, writer, ip, request, host, end, listening,
                   read_result>>

\* self.requests.write() returns the guard: no other task holds it
LockWrite(c) ==
    /\ ~Returning
    /\ pc[c] = "lock"
    /\ ~poisoned
    /\ writer = 0
    /\ writer' = c
    /\ pc' = [pc EXCEPT ![c] = "crit"]
    /\ UNCHANGED <<clock, fs, requests, poisoned, ip, tnow, request, allowed,
                   handled, calls, host, end, listening,
                   read_result>>

\* a handler that validates the path first and spends no quota on a request
\* it rejects for its path
CriticalValidatingFirst(c) ==
    /\ ~Returning
    /\ pc[c] = "crit"
    /\ LET valid == validate_path(request[c].path) = PathOk
           r == IF valid THEN is_allowed(requests, ip[c], tnow[c])
                ELSE [requests |-> requests, result |-> TRUE]
       IN  /\ requests' = r.requests
           /\ allowed' = [allowed EXCEPT ![c] = IF r.result THEN "true" ELSE "false"]
           /\ handled' = [handled EXCEPT ![c] = handle_request(r.result, fs, request[c])]
           /\ calls' = [calls EXCEPT ![ip[c]] =
                           Append(@, [now |-> tnow[c],
                                      res |-> IF r.result THEN "accept" ELSE "reject"])]
    /\ writer' = 0
    /\ tnow' = [tnow EXCEPT ![c] = 0]
    /\ pc' = [pc EXCEPT ![c] = "send"]
    /\ UNCHANGED <<clock, fs, poisoned, ip, request, host, end, listening,
                   read_result>>

\* is_allowed runs under the guard and returns; the rest of handle_request
\* follows in the same task and touches nothing shared
Critical(c) ==
    /\ ~Returning
    /\ pc[c] = "crit"
    /\ LET r == is_allowed(requests, ip[c], tnow[c])
       IN  /\ requests' = r.requests
           /\ allowed' = [allowed EXCEPT ![c] = IF r.result THEN "true" ELSE "false"]
           /\ handled' = [handled EXCEPT ![c] = handle_request(r.result, fs, request[c])]
           /\ calls' = [calls EXCEPT ![ip[c]] =
                           Append(@, [now |-> tnow[c],
                                      res |-> IF r.result THEN "accept" ELSE "reject"])]
    /\ writer' = 0
    /\ tnow' = [tnow EXCEPT ![c] = 0]
    /\ pc' = [pc EXCEPT ![c] = "send"]
    /\ UNCHANGED <<clock, fs, poisoned, ip, request, host, end, listening,
                   read_result>>

\* the eprintln! of the reject branch (line 65) panics because the write to
\* stderr fails: the guard is dropped by the unwinding, which poisons the
\* lock, and the task ends with nothing written.  It is the one panic that
\* can happen while the guard is held.
CriticalPanic(c) ==
    /\ ~Returning
    /\ pc[c] = "crit"
    /\ LET r == is_allowed(requests, ip[c], tnow[c])
       IN  /\ ~r.result
           /\ requests' = r.requests
    /\ calls' = [calls EXCEPT ![ip[c]] = Append(@, [now |-> tnow[c], res |-> "panic"])]
    /\ poisoned' = TRUE
    /\ writer' = 0
    /\ Drop(c, "panicked")
    /\ UNCHANGED <<clock, fs, listening>>

\* a task that keeps the connection alive: after the write it reads again
SendKeepAlive(c) ==
    /\ ~Returning
    /\ pc[c] = "send"
    /\ pc' = [pc EXCEPT ![c] = "read"]
    /\ request' = [request EXCEPT ![c] = NoRequest]
    /\ allowed' = [allowed EXCEPT ![c] = "unset"]
    /\ handled' = [handled EXCEPT ![c] = NotHandled]
    /\ read_result' = [read_result EXCEPT ![c] = "pending"]
    /\ UNCHANGED <<clock, fs, requests, poisoned, writer, ip, tnow, calls, host,
                   end, listening>>

\* response.send succeeds
Send(c) ==
    /\ ~Returning
    /\ pc[c] = "send"
    /\ Drop(c, "sent")
    /\ UNCHANGED <<clock, fs, requests, poisoned, writer, calls, listening>>

\* response.send fails: logged (or ignored, after a timeout)
SendFail(c) ==
    /\ ~Returning
    /\ pc[c] = "send"
    /\ Drop(c, "send_failed")
    /\ UNCHANGED <<clock, fs, requests, poisoned, writer, calls, listening>>

\* time passes
Tick ==
    /\ ~Returning
    /\ clock < MaxTime
    /\ clock' = clock + 1
    /\ UNCHANGED <<fs, requests, poisoned, writer, pc, ip, tnow, request, allowed,
                   handled, calls, host, end, listening,
                   read_result>>

\* the poll in which the task returned also drops the task with its stream:
\* the connection closes before anything else is polled
Reap(c) ==
    /\ pc[c] = "closed"
    /\ pc' = [pc EXCEPT ![c] = "done"]
    /\ end' = [end EXCEPT ![c] = NotEnded]
    /\ UNCHANGED <<clock, fs, requests, poisoned, writer, ip, tnow, request, allowed,
                   handled, calls, host, listening,
                   read_result>>

\* the steps of a connection task after it was spawned
Task(c) ==
    \/ ReadTimeout(c)
    \/ ReadError(c)
    \/ ReadZero(c)
    \/ ReadBad(c)
    \/ LockPoisoned(c)
    \/ LockWrite(c)
    \/ Critical(c)
    \/ CriticalPanic(c)
    \/ Send(c)
    \/ SendFail(c)

(***************************************************************************)
(* Spec: the tasks of two connections at a time run concurrently, from     *)
(* either address, each carrying GET /api/ping.  SpecSeq: the connections  *)
(* come from one address, are served one after the other and carry every   *)
(* request of the model, over every filesystem.                            *)
(***************************************************************************)
Init == InitWith({IndexEntry @@ HelloEntry @@ BaseEntries})

Next ==
    \/ \E c \in Conns :
          Accept(c, MaxConns, 2, IPs) \/ ReadOk(c, PingRequests, {NoHost}) \/ Task(c) \/ Reap(c)
    \/ AcceptFail
    \/ Tick

Spec == Init /\ [][Next]_vars

InitSeq == InitWith(FileSystems)

NextSeq ==
    \/ \E c \in Conns :
          Accept(c, SeqConns, 1, {"10.0.0.1"}) \/ ReadOk(c, AllRequests, {NoHost}) \/ Task(c) \/ Reap(c)
    \/ AcceptFail
    \/ Tick

SpecSeq == InitSeq /\ [][NextSeq]_vars

(***************************************************************************)
(* SpecHost: connections one after another whose requests carry every Host *)
(* header of Hosts.                                                        *)
(***************************************************************************)
InitHost == InitWith({IndexEntry @@ HelloEntry @@ BaseEntries})

NextHost ==
    \/ \E c \in Conns :
          \/ Accept(c, SeqConns, 1, {"10.0.0.1"})
          \/ ReadOk(c, HostRequests, Hosts)
          \/ Task(c)
          \/ Reap(c)
    \/ AcceptFail
    \/ Tick

SpecHost == InitHost /\ [][NextHost]_vars

(***************************************************************************)
(* SpecPaths: connections one after another with the GET requests of       *)
(* LookupRequests.                                                         *)
(***************************************************************************)
InitPaths == InitWith({IndexEntry @@ HelloEntry @@ BaseEntries})

NextPaths ==
    \/ \E c \in Conns :
          \/ Accept(c, SeqConns, 1, {"10.0.0.1"})
          \/ ReadOk(c, LookupRequests, {NoHost})
          \/ Task(c)
          \/ Reap(c)
    \/ AcceptFail
    \/ Tick

SpecPaths == InitPaths /\ [][NextPaths]_vars

(***************************************************************************)
(* SpecSweep: connections one after another, from the identities of       *)
(* SweepIPs.                                                               *)
(***************************************************************************)
InitSweep == InitWith({IndexEntry @@ HelloEntry @@ BaseEntries})

NextSweep ==
    \/ \E c \in Conns :
          \/ Accept(c, SeqConns, 1, SweepIPs)
          \/ ReadOk(c, PingRequests, {NoHost})
          \/ Task(c)
          \/ Reap(c)
    \/ AcceptFail
    \/ Tick

SpecSweep == InitSweep /\ [][NextSweep]_vars

(***************************************************************************)
(* SpecCalls: the tasks of two connections at a time, from two identities, *)
(* each of which reads a request, consults the limiter and writes its      *)
(* response: the behaviours in which no read fails, no write fails and     *)
(* nothing panics.                                                         *)
(***************************************************************************)
InitCalls == InitWith({IndexEntry @@ HelloEntry @@ BaseEntries})

NextCalls ==
    \/ \E c \in Conns :
          \/ Accept(c, CallConns, 2, IPs)
          \/ ReadOk(c, PingRequests, {NoHost})
          \/ LockWrite(c)
          \/ Critical(c)
          \/ Send(c)
          \/ Reap(c)
    \/ Tick

SpecCalls == InitCalls /\ [][NextCalls]_vars

(***************************************************************************)
(* SpecLive and SpecFair: every accepted connection gets a task at once,   *)
(* however many tasks are running, and time stands still.                  *)
(*                                                                         *)
(* SpecLive is fair to the acceptor only: listener.accept() is awaited in  *)
(* a loop of its own (line 38), so a connection that is waiting is         *)
(* eventually returned by it, and the poll in which a task returns drops   *)
(* it.  A task may stay at any of its steps forever.                       *)
(*                                                                         *)
(* SpecFair is fair to the steps of the tasks as well: while some task can *)
(* take a step, some task does.  The read ends after 10 seconds at the     *)
(* latest (line 45), the write lock is released by the end of is_allowed,  *)
(* and the write is assumed to complete or fail.                           *)
(***************************************************************************)
InitLive == InitWith({IndexEntry @@ HelloEntry @@ BaseEntries})

AcceptLive(c) == Accept(c, LiveConns, LiveConns, {"10.0.0.1"})

NextLive ==
    \/ \E c \in Conns :
          \/ AcceptLive(c)
          \/ ReadOk(c, PingRequests, {NoHost})
          \/ Task(c)
          \/ Reap(c)
    \/ AcceptFail

AcceptorFairness ==
    /\ WF_vars(\E c \in Conns : AcceptLive(c))
    /\ WF_vars(\E c \in Conns : Reap(c))

TaskFairness ==
    WF_vars(\E c \in Conns : ReadOk(c, PingRequests, {NoHost}) \/ Task(c))

SpecLive == InitLive /\ [][NextLive]_vars /\ AcceptorFairness

SpecFair == InitLive /\ [][NextLive]_vars /\ AcceptorFairness /\ TaskFairness

(***************************************************************************)
(* Properties of the rate limiter.                                         *)
(***************************************************************************)
\* the is_allowed calls of identity `a` that reached the ledger (the lock
\* was not poisoned), in the order they ran
LedgerCalls(a) ==
    LET Reached(call) == call.res # "poisoned"
    IN  SelectSeq(calls[a], Reached)

\* the calls `a` has made since t0, in the order they ran
CallsSince(a, t0) ==
    LET Since(call) == call.now >= t0
    IN  SelectSeq(LedgerCalls(a), Since)

\* the window that starts at t0 has not ended, and every call `a` made
\* before t0 is at least a window older than t0, so that it is not counted
\* against the calls made since t0
OpenWindow(a, t0) ==
    /\ clock < t0 + rate_limit_window
    /\ \A i \in 1..Len(calls[a]) :
           calls[a][i].now < t0 => t0 - calls[a][i].now >= rate_limit_window

\* every task that is_allowed turned away holds the rate-limited response
RejectedAnswered429 ==
    \A c \in Conns :
        allowed[c] = "false" =>
            /\ handled[c].response.status_code = TooManyRequests
            /\ handled[c].response.body = Some("Rate limit exceeded. Please try again later.")
            /\ pc[c] = "send"

AcceptedInWindow(a, t0) ==
    LET Counted(call) ==
            /\ call.res = "accept"
            /\ call.now >= t0
            /\ call.now < t0 + rate_limit_window
    IN  SelectSeq(calls[a], Counted)

\* how many times timestamp t occurs in a list of timestamps
Occurrences(times, t) == Cardinality({i \in 1..Len(times) : times[i] = t})

\* the timestamps of the ledger are accepted ones: each occurs in the ledger
\* at most as often as it was accepted
LedgerHoldsAcceptedOnly ==
    \A a \in DOMAIN requests : \A t \in 0..MaxTime :
        Occurrences(requests[a], t) <=
            Cardinality({i \in 1..Len(calls[a]) :
                            calls[a][i].res = "accept" /\ calls[a][i].now = t})

\* an accepted timestamp that no call has yet seen as older than the window
\* is still in the ledger, as often as it was accepted
NoAcceptedLost ==
    \A a \in IPs : \A t \in 0..MaxTime :
        (\A b \in IPs : \A i \in 1..Len(calls[b]) :
             duration_since(calls[b][i].now, t) < rate_limit_window)
        => Occurrences(IF a \in DOMAIN requests THEN requests[a] ELSE <<>>, t) =
               Cardinality({i \in 1..Len(calls[a]) :
                               calls[a][i].res = "accept" /\ calls[a][i].now = t})

\* at most one task is between taking and dropping the write guard
OneWriter ==
    \A c \in Conns : pc[c] = "crit" <=> writer = c

\* C2: under any interleaving of the connection tasks each is_allowed call
\* is one step on the ledger, no identity has more than rate_limit_requests
\* accepted timestamps in any one window, and no accepted timestamp is lost.
C2_ConcurrentLimit ==
    /\ OneWriter
    /\ LedgerHoldsAcceptedOnly
    /\ NoAcceptedLost
    /\ \A a \in IPs : \A t0 \in 0..MaxTime :
           Len(AcceptedInWindow(a, t0)) <= rate_limit_requests


\* C3: once the ledger's lock is poisoned it stays poisoned, the ledger is
\* never modified again, and every request dispatched from then on, of
\* whatever identity, is turned away by is_allowed and answered as
\* rate-limited.
C3_FailClosed ==
    [][poisoned =>
          /\ poisoned'
          /\ requests' = requests
          /\ \A c \in Conns :
                 (pc[c] = "lock" /\ pc'[c] # "lock") =>
                     /\ pc'[c] = "send"
                     /\ allowed'[c] = "false"
                     /\ handled'[c].response = rate_limited]_vars

\* a task found the lock poisoned and holds the rate-limited response
C3_Witness ==
    \E c \in Conns :
        /\ poisoned
        /\ pc[c] = "send"
        /\ allowed[c] = "false"
        /\ ip[c] \in IPs
        /\ calls[ip[c]] # <<>>
        /\ calls[ip[c]][Len(calls[ip[c]])].res = "poisoned"
        /\ handled[c].response = rate_limited

(***************************************************************************)
(* Properties of the dispatcher, the API router and the file resolver.     *)
(***************************************************************************)
\* the elements of a sequence
Range(seq) == {seq[i] : i \in 1..Len(seq)}

\* handle_request ran for the request of connection c and passed both checks
Passed(c) ==
    allowed[c] = "true" /\ validate_path(request[c].path) = PathOk

StageRank(stage) == CHOOSE i \in 1..Len(StageOrder) : StageOrder[i] = stage

\* C4: handle_request goes through its stages in the order RateLimitCheck,
\* PathValidation, Logging, ApiRouting, StaticFileRouting, MethodFallback;
\* a request the rate limiter or the path validation rejects ends there,
\* with no API routing and no file read after it.
C4_StageOrder ==
    \A c \in Conns :
        allowed[c] # "unset" =>
            LET stages == handled[c].stages
            IN  /\ stages # <<>>
                /\ \A i \in 1..Len(stages) : stages[i] \in Range(StageOrder)
                /\ \A i, j \in 1..Len(stages) :
                       i < j => StageRank(stages[i]) < StageRank(stages[j])
                /\ \A i \in 1..Len(stages) : i <= 4 => stages[i] = StageOrder[i]
                /\ handled[c].reads # <<>> => "StaticFileRouting" \in Range(stages)
                /\ allowed[c] = "false" =>
                       /\ stages = <<"RateLimitCheck">>
                       /\ handled[c].reads = <<>>
                       /\ handled[c].response = rate_limited
                /\ (allowed[c] = "true" /\ validate_path(request[c].path) # PathOk) =>
                       /\ stages = <<"RateLimitCheck", "PathValidation">>
                       /\ handled[c].reads = <<>>
                       /\ handled[c].response =
                              handle_security_violation(validate_path(request[c].path))

\* a request under the API prefix with an invalid path was stopped at the
\* path validation
C4_Witness ==
    \E c \in Conns :
        /\ pc[c] = "send"
        /\ allowed[c] = "true"
        /\ request[c] = Request("GET", P_api_dotdot)
        /\ handled[c].stages = <<"RateLimitCheck", "PathValidation">>
        /\ handled[c].response.status_code = BadRequest

\* the checks read_file makes before it reads, in order
ChecksBeforeRead ==
    <<"validate_path", "validate_file_extension", "canonicalize", "starts_with",
      "is_file", "read_to_string">>

\* `canonical` is a regular file strictly inside the sandbox root
RegularFileInside(fsys, canonical) ==
    /\ PathStartsWith(canonical, public_path)
    /\ canonical # public_path
    /\ \E rel \in DOMAIN fsys :
           fsys[rel].canonical = canonical /\ fsys[rel].kind = "file"

\* every file a response was built from was read by read_file after all its
\* checks, and every file content in a response body is what such a read gave
ReadsAreSandboxed ==
    \A c \in Conns :
        /\ \A i \in 1..Len(handled[c].reads) :
               handled[c].reads[i].opened # <<>> =>
                   /\ handled[c].reads[i].steps = ChecksBeforeRead
                   /\ RegularFileInside(fs, handled[c].reads[i].opened)
        /\ \A j \in 1..Len(handled[c].response.body) :
               handled[c].response.body[j] \in FileContents =>
                   \E i \in 1..Len(handled[c].reads) :
                       /\ handled[c].reads[i].opened # <<>>
                       /\ handled[c].reads[i].result # <<>>
                       /\ handled[c].reads[i].result[1] = handled[c].response.body[j]

\* C5: file content in a response body comes only from a regular file whose
\* canonical path is inside the sandbox root, read after validate_path,
\* validate_file_extension and the containment check, in that order; the
\* filesystem is never written.
C5_SandboxedRead ==
    []ReadsAreSandboxed /\ [][fs' = fs]_vars

\* a response carries the content of a.html
C5_Witness ==
    \E c \in Conns :
        /\ pc[c] = "send"
        /\ request[c] = Request("GET", P_a)
        /\ handled[c].response.status_code = Ok
        /\ handled[c].response.body = Some("contents of a.html")

\* the path has a `..` segment or a NUL byte
Traversal(path) == Contains(path, <<".", ".">>) \/ Contains(path, <<NUL>>)

\* C6: for a path with `..` or a NUL byte read_file returns None without
\* reading a file, and a request for it, of any method, under the API prefix
\* or not, gets a 4xx response with no file content.
C6_TraversalRejected ==
    /\ \A p \in Paths :
           Traversal(p) =>
               /\ read_file(fs, p).result = <<>>
               /\ read_file(fs, p).opened = <<>>
    /\ \A c \in Conns :
           (allowed[c] # "unset" /\ Traversal(request[c].path)) =>
               /\ handled[c].response.status_code \in 400..499
               /\ handled[c].reads = <<>>
               /\ \A j \in 1..Len(handled[c].response.body) :
                      handled[c].response.body[j] \notin FileContents

\* a POST for a `..` path that resolves inside the root was answered 400
C6_Witness ==
    \E c \in Conns :
        /\ pc[c] = "send"
        /\ allowed[c] = "true"
        /\ request[c] = Request("POST", P_sub_dotdot)
        /\ handled[c].response.status_code = BadRequest
        /\ F_sub_up \in DOMAIN fs

\* the routes handle_api_route knows
KnownApiRoute(method, path) ==
    \/ method = "GET" /\ path \in {P_api_ping, P_api_info, P_api_users,
                                   P_api_search, P_api_time}
    \/ method = "GET" /\ StartsWith(path, P_api_users_)
    \/ method = "POST" /\ path = P_api_echo

\* C7: handle_api_route returns None exactly for the paths not under the
\* API prefix; a request under the prefix never causes a static file read,
\* and an unknown route under it gets the JSON not-found response.
C7_ApiPrefixExclusive ==
    /\ \A m \in Methods : \A p \in Paths :
           (handle_api_route(m, p) = <<>>) <=> ~StartsWith(p, P_api_)
    /\ \A c \in Conns :
           (Passed(c) /\ StartsWith(request[c].path, P_api_)) =>
               /\ handled[c].reads = <<>>
               /\ "StaticFileRouting" \notin Range(handled[c].stages)
               /\ ~KnownApiRoute(request[c].method, request[c].path) =>
                      handled[c].response =
                          with_content_type(NotFound, ApiNotFoundBody, ApplicationJson)

\* an unknown route under the API prefix was answered
C7_Witness ==
    \E c \in Conns :
        /\ pc[c] = "send"
        /\ allowed[c] = "true"
        /\ request[c] = Request("GET", P_api_unknown)
        /\ handled[c].response.status_code = NotFound
        /\ handled[c].response.body = ApiNotFoundBody

\* C8: a HEAD request that passes the checks gets the status code a GET for
\* the same path would get, with an empty body, for every path, static or
\* under the API prefix.
C8_HeadMirrorsGet ==
    \A c \in Conns :
        (Passed(c) /\ request[c].method = "HEAD") =>
            /\ handled[c].response.status_code =
                   handle_request(TRUE, fs, Request("GET", request[c].path)).response.status_code
            /\ handled[c].response.body = NoBody

\* C9: an OPTIONS request that passes the checks is answered 200 with no
\* body, for every path, under the API prefix or not.
C9_OptionsOk ==
    \A c \in Conns :
        (Passed(c) /\ request[c].method = "OPTIONS") =>
            /\ handled[c].response.status_code = Ok
            /\ handled[c].response.body = NoBody

\* the request of connection c passed the checks and its method is not GET,
\* HEAD or OPTIONS
OtherMethod(c) ==
    Passed(c) /\ request[c].method \notin {"GET", "HEAD", "OPTIONS"}

\* C10 as stated: a request that passes the checks and whose method is not
\* GET, HEAD or OPTIONS is answered 405, for every path, under the API
\* prefix or not.
C10_OtherMethods405 ==
    \A c \in Conns :
        OtherMethod(c) => handled[c].response.status_code = MethodNotAllowed

\* C10: a request that passes the checks and whose method is not GET, HEAD
\* or OPTIONS is answered 405, without a file read, for every path not under
\* the API prefix; under the prefix POST /api/echo is answered 200 and every
\* other such request gets the JSON not-found response.
C10_OtherMethodsOutsideApi ==
    \A c \in Conns :
        OtherMethod(c) =>
            IF ~StartsWith(request[c].path, P_api_)
            THEN /\ handled[c].response =
                        Response_new(MethodNotAllowed, Some("Method not allowed"))
                 /\ handled[c].reads = <<>>
            ELSE IF request[c] = Request("POST", P_api_echo)
            THEN handled[c].response.status_code = Ok
            ELSE handled[c].response =
                     with_content_type(NotFound, ApiNotFoundBody, ApplicationJson)

\* a PUT for a file that a GET would serve was answered 405
C10_Witness ==
    \E c \in Conns :
        /\ pc[c] = "send"
        /\ allowed[c] = "true"
        /\ request[c] = Request("PUT", P_a)
        /\ handled[c].response.status_code = MethodNotAllowed
        /\ handled[c].reads = <<>>

(***************************************************************************)
(* The Host header.                                                        *)
(***************************************************************************)
\* the status codes 4xx
ClientError == 400..499

\* C11: a request whose Host header is present and is not exactly one of the
\* allow-listed hosts is answered with a 4xx response and reaches neither the
\* API routing nor the static file serving; a request with no Host header or
\* an allow-listed one is not rejected for its host.
C11_ForeignHostRejected ==
    \A c \in Conns :
        pc[c] = "send" /\ request[c] # NoRequest /\ ~validate_host(host[c])
        => /\ handled[c].response.status_code \in ClientError
           /\ "ApiRouting" \notin Range(handled[c].stages)
           /\ "StaticFileRouting" \notin Range(handled[c].stages)

(***************************************************************************)
(* The end of a connection task.                                           *)
(***************************************************************************)
\* the ways a task ends with nothing written that the claim allows
SilentEnds == {"zero_bytes", "send_failed"}

\* C12: every failure path (socket read error, read timeout, parse failure,
\* rate-limit rejection, path rejection, missing file) writes one complete
\* response before the connection closes; only a zero-byte read or a failed
\* write closes the connection with nothing written.
C12_FailureAnswered ==
    \A c \in Conns :
        pc[c] = "closed" /\ end[c] \notin SilentEnds => end[c] = "sent"

(***************************************************************************)
(* The acceptor.                                                           *)
(***************************************************************************)
\* the ways a task ends that are failures
FailedEnds == {"read_error", "send_failed", "panicked"}

\* C13: no outcome of a connection task and no failed accept stops the
\* acceptor: the accept loop is always running and, with a fair acceptor,
\* every connection that is waiting is eventually accepted and given its
\* task, whether or not the tasks spawned before it ever finish.
C13_AcceptorLive ==
    /\ []listening
    /\ \A c \in 1..LiveConns : (pc[c] = "idle") ~> (pc[c] # "idle")

\* the last connection has its task while the task of the first one is still
\* reading and another task has just failed
C13_Witness ==
    /\ pc[1] = "read"
    /\ pc[LiveConns] = "read"
    /\ \E c \in Conns : pc[c] = "closed" /\ end[c] \in FailedEnds

(***************************************************************************)
(* One request-response cycle per connection.                              *)
(***************************************************************************)
Steps == <<"idle", "read", "lock", "crit", "send", "closed", "done">>
StepRank(step) == CHOOSE i \in 1..Len(Steps) : Steps[i] = step

\* every step of a task takes it forward: it never comes back to a step it
\* has left, so it reads once, is dispatched once and writes once at most
OneCycle ==
    \A c \in Conns : pc'[c] # pc[c] => StepRank(pc'[c]) > StepRank(pc[c])

\* no task is between its spawn and its end.  A task never steps back, so
\* every task that was spawned before such a moment has terminated by then.
NoTaskRunning == \A c \in Conns : pc[c] \in {"idle", "done"}

\* C14: each connection serves one request-response cycle: its task reads at
\* most once, dispatches at most one request, writes at most one response
\* and never goes back to read a second request; and every spawned task
\* terminates, given that its read and its write complete: again and again
\* no task is left running.
C14_OneCycleThenEnd ==
    [][OneCycle]_vars /\ []<>NoTaskRunning

\* a task has written its response and returned while an earlier connection
\* is closed already
C14_Witness ==
    \E c, d \in Conns : pc[c] = "closed" /\ end[c] = "sent" /\ pc[d] = "done"

(***************************************************************************)
(* The read timeout.                                                       *)
(***************************************************************************)
\* the read of connection c was abandoned at the timeout
TimedOut(c) == read_result[c] = "timeout"

\* a timed-out task is about to write the 408 response, and for its
\* connection nothing was parsed, dispatched or rate-limited
TimeoutOnly408 ==
    \A c \in Conns :
        TimedOut(c)
        => /\ pc[c] = "send"
           /\ handled[c] = Handled(timeout_response, <<>>, <<>>)
           /\ handled[c].response.status_code = RequestTimeout
           /\ request[c] = NoRequest
           /\ allowed[c] = "unset"

\* the timeout leaves the limiter alone, and the one step a timed-out task
\* takes is its write, after which it returns whether the write failed or not
TimeoutOneWrite ==
    \A c \in Conns :
        /\ ~TimedOut(c) /\ TimedOut(c)' => UNCHANGED <<requests, calls, poisoned, writer>>
        /\ TimedOut(c) /\ pc'[c] # pc[c]
           => pc'[c] = "closed" /\ end'[c] \in {"sent", "send_failed"}

\* C15: when the read times out, the task abandons the read, invokes
\* neither the parser nor the dispatcher nor the rate limiter for that
\* connection, and attempts exactly one write, of the 408 "Request timeout"
\* response; whether that write fails or not, the connection then closes.
C15_TimeoutAnswered ==
    []TimeoutOnly408 /\ [][TimeoutOneWrite]_vars

\* a task timed out while another task holds the limiter's lock
C15_Witness ==
    \E c, d \in Conns : TimedOut(c) /\ pc[c] = "send" /\ writer = d

(***************************************************************************)
(* The extension check.                                                    *)
(***************************************************************************)
HasDot(path) == \E i \in 1..Len(path) : path[i] = "."

\* the text after the last "." of a path that has one
AfterLastDot(path) ==
    LET last == CHOOSE i \in 1..Len(path) :
                    path[i] = "." /\ \A j \in (i + 1)..Len(path) : path[j] # "."
    IN  SubSeq(path, last + 1, Len(path))

\* read_file got past validate_file_extension in this call
ExtensionAccepted(read) == "canonicalize" \in Range(read.steps)

\* C16: validate_file_extension accepts a path if and only if the path has a
\* "." and the lowercased text after its last "." is in the allow-set: case
\* variants of an allowed extension are accepted, other extensions are
\* rejected, and every path with no "." is rejected.
C16_ExtensionIff ==
    \A c \in Conns : \A i \in 1..Len(handled[c].reads) :
        LET read == handled[c].reads[i]
        IN  "validate_file_extension" \in Range(read.steps)
            => (ExtensionAccepted(read)
                <=> /\ HasDot(read.file_path)
                    /\ ToLowercase(AfterLastDot(read.file_path))
                          \in allowed_file_extensions)

(***************************************************************************)
(* The user lookup.                                                        *)
(***************************************************************************)
\* the path parameter of a user-lookup path: what follows "/api/users/"
PathParameter(path) == SubSeq(path, Len(P_api_users_) + 1, Len(path))

UserIds == 1..3

\* the record of a user, as the lookup formats it
UserRecord(user_id) == user_by_id(P_api_users_ \o <<Digits[user_id + 1]>>)[1]

\* C17: a GET request to the user-lookup route is answered 200 with the
\* matching user record if and only if its path parameter is a positive
\* integer in 1..3; a parameter that is a number outside that range is
\* answered 404 with a JSON body containing "success": false, one that does
\* not parse with a 4xx JSON error body; it never falls through to the
\* static files.
C17_UserLookup ==
    \A c \in Conns :
        /\ pc[c] = "send"
        /\ request[c] # NoRequest
        /\ Passed(c)
        /\ request[c].method = "GET"
        /\ StartsWith(request[c].path, P_api_users_)
        => LET user_id == ParseU32(PathParameter(request[c].path))
               response == handled[c].response
           IN  /\ response.status_code = Ok <=> user_id \in UserIds
               /\ user_id \in UserIds => response = UserRecord(user_id)
               /\ user_id >= 0 /\ user_id \notin UserIds
                  => /\ response.status_code = NotFound
                     /\ response.content_type = ApplicationJson
                     /\ response.body =
                          Some("{\"success\": false, \"data\": null, \"message\": \"User not found\"}")
               /\ user_id < 0
                  => /\ response.status_code \in ClientError
                     /\ response.content_type = ApplicationJson
               /\ "StaticFileRouting" \notin Range(handled[c].stages)

(***************************************************************************)
(* The timestamps of an identity when they are counted.                    *)
(***************************************************************************)
\* the list is_allowed counts at line 61 for the task that holds the guard:
\* the caller's entry after the sweep and the retain
CountedEntry(c) == own_entry(sweep(requests, tnow[c]), ip[c], tnow[c])

Ordered(times) ==
    \A i, j \in 1..Len(times) : i < j => times[i] <= times[j]

\* C18: when is_allowed compares the length of an identity's list with the
\* limit, every timestamp of the list is younger than rate_limit_window,
\* the stale ones having been pruned first, and the list is ordered from
\* oldest to newest.
C18_FreshAndOrdered ==
    \A c \in Conns :
        pc[c] = "crit"
        => /\ \A i \in 1..Len(CountedEntry(c)) :
                 tnow[c] - CountedEntry(c)[i] < rate_limit_window
           /\ Ordered(CountedEntry(c))

(***************************************************************************)
(* The sweep of the ledger.                                                *)
(***************************************************************************)
\* the ledger holds more identities than the threshold
LedgerLarge == Cardinality(DOMAIN requests) > SweepThreshold

\* no identity of the ledger is empty or holds a timestamp that is a window
\* or more older than now
SweptClean(ledger, now) ==
    \A i \in DOMAIN ledger :
        /\ ledger[i] # <<>>
        /\ \A k \in 1..Len(ledger[i]) : now - ledger[i][k] < rate_limit_window

\* the ledger right after the sweep of the call that holds the guard
SweepIsClean ==
    \A c \in Conns :
        pc[c] = "crit" /\ LedgerLarge => SweptClean(sweep(requests, tnow[c]), tnow[c])

\* the ledger an is_allowed call leaves: swept as a whole when it was large,
\* and otherwise changed for the caller's identity only
SweepOrOwnEntry ==
    \A c \in Conns :
        pc[c] = "crit" /\ pc'[c] # "crit"
        => IF LedgerLarge
           THEN SweptClean(requests', tnow[c])
           ELSE \A i \in (DOMAIN requests \cup DOMAIN requests') \ {ip[c]} :
                    /\ i \in DOMAIN requests
                    /\ i \in DOMAIN requests'
                    /\ requests'[i] = requests[i]

\* C19: an is_allowed call that finds more identities in the ledger than the
\* threshold sweeps the whole ledger before it decides: after the sweep no
\* identity holds a timestamp older than the window and no identity is left
\* with zero timestamps; a call that finds the ledger at or below the
\* threshold modifies no identity but the caller's.
C19_SweepWhenLarge ==
    []SweepIsClean /\ [][SweepOrOwnEntry]_vars

\* an identity that was accepted is no longer in the ledger: a sweep took it
C19_Witness ==
    \E a \in SweepIPs :
        /\ \E k \in 1..Len(calls[a]) : calls[a][k].res = "accept"
        /\ a \notin DOMAIN requests
        /\ Cardinality(DOMAIN requests) >= 1

(***************************************************************************)
(* The rate limiter and the connections.                                   *)
(***************************************************************************)
\* C20: the rate limiter is consulted once per connection: for every
\* accepted connection from which request bytes were read, whether they
\* parse as a request or not, is_allowed has been invoked, once, by the time
\* the response is written.
C20_LimiterOncePerConnection ==
    \A c \in Conns :
        read_result[c] = "bytes" /\ pc[c] = "send" => allowed[c] # "unset"

(***************************************************************************)
(* A rejected call.                                                        *)
(***************************************************************************)
\* the timestamps of a list that are less than a window older than now
InWindow(times, now) ==
    LET Young(time) == now - time < rate_limit_window
    IN  SelectSeq(times, Young)

\* the task of connection c leaves is_allowed, which has rejected its call
RejectedCall(c) ==
    /\ pc[c] = "crit"
    /\ pc'[c] # "crit"
    /\ calls'[ip[c]][Len(calls'[ip[c]])].res \in {"reject", "panic"}

\* a rejected call leaves in the caller's list the timestamps in the window
\* that were there before it, and nothing else
RejectionAppendsNothing ==
    \A c \in Conns :
        RejectedCall(c)
        => /\ ip[c] \in DOMAIN requests
           /\ ip[c] \in DOMAIN requests'
           /\ requests'[ip[c]] = InWindow(requests[ip[c]], tnow[c])

\* C21: a rejected is_allowed call appends no timestamp: after it the
\* caller's list holds exactly the in-window timestamps it held before, so
\* calls made over the limit do not prolong the time the identity is blocked.
C21_RejectionAppendsNothing == [][RejectionAppendsNothing]_vars

\* a call was rejected by the limiter and the caller's list is at the limit
C21_Witness ==
    \E c \in Conns :
        /\ pc[c] = "send"
        /\ allowed[c] = "false"
        /\ ~poisoned
        /\ ip[c] \in DOMAIN requests
        /\ Len(requests[ip[c]]) = rate_limit_requests

(***************************************************************************)
(* The identities are limited independently.                               *)
(***************************************************************************)
\* the ledger of a limiter that has served the first k calls of a history
\* of identity a, and no call of any other identity
RECURSIVE AloneLedger(_, _, _)
AloneLedger(a, history, k) ==
    IF k = 0 THEN <<>>
    ELSE is_allowed(AloneLedger(a, history, k - 1), a, history[k].now).requests

\* the decision of that limiter for the k-th call of the history
AloneResult(a, history, k) ==
    is_allowed(AloneLedger(a, history, k - 1), a, history[k].now).result

\* C22: the decisions for an identity depend on its own calls and their
\* times only: whatever the other identities did in between, the sweep
\* included, each decision is the one a limiter makes that has served the
\* calls of this identity and no others.
C22_IndependentIdentities ==
    \A a \in IPs : \A k \in 1..Len(calls[a]) :
        (calls[a][k].res = "accept") <=> AloneResult(a, calls[a], k)

(***************************************************************************)
(* The quota a request consumes.                                           *)
(***************************************************************************)
\* the list of an identity in the ledger, empty if it has none
ListOf(ledger, a) == IF a \in DOMAIN ledger THEN ledger[a] ELSE <<>>

\* the statuses of the responses to requests that passed the rate limit
AdmittedStatuses == {Ok, BadRequest, NotFound, MethodNotAllowed}

\* handle_request returns for a request that passed the rate-limit check:
\* whatever the response is, the identity's list has one timestamp more
\* than its in-window timestamps before the call, the `now` of the call
OneUnitPerAdmitted ==
    \A c \in Conns :
        pc[c] = "crit" /\ pc'[c] = "send" /\ allowed'[c] = "true"
        => /\ handled'[c].response.status_code \in AdmittedStatuses
           /\ ListOf(requests', ip[c])
                = Append(InWindow(ListOf(requests, ip[c]), tnow[c]), tnow[c])

\* a request with an invalid path that arrives when the identity's list is
\* full is answered by the rate limiter, not by the path validation
InvalidPathsAreLimited ==
    \A c \in Conns :
        /\ pc[c] = "crit"
        /\ validate_path(request[c].path) # PathOk
        /\ Len(InWindow(ListOf(requests, ip[c]), tnow[c])) >= rate_limit_requests
        => ~is_allowed(requests, ip[c], tnow[c]).result

\* C23: every dispatched request that passes the rate-limit check consumes
\* exactly one unit of its identity's quota whatever the later stages decide:
\* rejected by the path validation (400), answered 404 or 405, or served, it
\* adds exactly one timestamp; so an identity that sends only requests with
\* invalid paths is rate-limited after rate_limit_requests of them in a
\* window.
C23_OneUnitPerAdmitted ==
    []InvalidPathsAreLimited /\ [][OneUnitPerAdmitted]_vars

\* a request rejected for its path has taken the last unit of the quota
C23_Witness ==
    \E c \in Conns :
        /\ pc[c] = "send"
        /\ allowed[c] = "true"
        /\ validate_path(request[c].path) # PathOk
        /\ handled[c].response.status_code = BadRequest
        /\ Len(ListOf(requests, ip[c])) = rate_limit_requests

(***************************************************************************)
(* The window slides.                                                      *)
(***************************************************************************)
SetMin(S) == CHOOSE x \in S : \A y \in S : x <= y

\* the call of connection c is made a window or more after the oldest
\* timestamp counted for its identity
WindowElapsed(c) ==
    /\ ListOf(requests, ip[c]) # <<>>
    /\ tnow[c] - SetMin(Range(ListOf(requests, ip[c]))) >= rate_limit_window

\* is_allowed returns to the task of connection c, from under the guard
\* (whether it panics after deciding or not)
LimiterDecides(c) == pc[c] = "crit" /\ pc'[c] # "crit"

\* is_allowed returns to the task of connection c, with or without having
\* acquired the guard
CallReturns(c) == LimiterDecides(c) \/ (pc[c] = "lock" /\ pc'[c] = "send")

\* C24 as stated: a call made once at least rate_limit_window has elapsed
\* since the oldest counted accepted request of its identity is accepted (a
\* timestamp exactly rate_limit_window old is pruned, not counted), so that
\* no identity stays rejected.
C24_WindowSlides ==
    [][\A c \in Conns : CallReturns(c) /\ WindowElapsed(c) => allowed'[c] = "true"]_vars

\* C24, for the calls that acquire the write lock: such a call, made once at
\* least rate_limit_window has elapsed since the oldest counted accepted
\* request of its identity, is accepted; once the lock is poisoned every
\* call is rejected.
C24_WindowSlidesUnlessPoisoned ==
    [][\A c \in Conns : LimiterDecides(c) /\ WindowElapsed(c) => allowed'[c] = "true"]_vars

\* an identity that was rejected is accepted again
C24_Witness ==
    \E c \in Conns :
        /\ pc[c] = "send"
        /\ allowed[c] = "true"
        /\ \E k \in 1..Len(calls[ip[c]]) :
               /\ calls[ip[c]][k].res = "reject"
               /\ calls[ip[c]][Len(calls[ip[c]])].res = "accept"
               /\ calls[ip[c]][Len(calls[ip[c]])].now
                    >= calls[ip[c]][k].now + rate_limit_window

(***************************************************************************)
(* The sweep and the decisions.                                            *)
(***************************************************************************)
\* the reference limiter: it prunes the caller's own list and never sweeps
\* or removes an identity, so the list of an identity is what the calls of
\* that identity made of it.  Its list after the first k calls of a history:
RECURSIVE ReferenceList(_, _)
ReferenceList(history, k) ==
    IF k = 0 THEN <<>>
    ELSE LET mine == InWindow(ReferenceList(history, k - 1), history[k].now)
         IN  IF Len(mine) < rate_limit_requests
             THEN Append(mine, history[k].now)
             ELSE mine

\* the decision of the reference limiter for the k-th call of a history
ReferenceAccepts(history, k) ==
    Len(InWindow(ReferenceList(history, k - 1), history[k].now))
        < rate_limit_requests

\* C25: the bulk sweep never changes a decision: for every sequence of
\* is_allowed calls and times, each accept or reject of the limiter is the
\* decision of the reference limiter that never sweeps.
C25_SweepChangesNoDecision ==
    \A a \in IPs \cup SweepIPs : \A k \in 1..Len(LedgerCalls(a)) :
        (LedgerCalls(a)[k].res = "accept") <=> ReferenceAccepts(LedgerCalls(a), k)

============================================================================
